---- MODULE Spec2Model ----
(***************************************************************************)
(* Model of mtv_dl.py: the catalog store (Database), the history ledger    *)
(* (History), the media fetcher (Show.download) and the command loop of    *)
(* main().  Time is counted in hours.  A show is identified by its hash.    *)
(***************************************************************************)
EXTENDS Integers, Sequences, FiniteSets, TLC

\* ---------------------------------------------------------------- bounds
NShows == 2          \* number of distinct shows the mirrors publish
MaxRuns == 2         \* invocations of main() in one behaviour
NVersions == 2       \* script versions (mtime of the script file)

\* ------------------------------------------------------ program constants
\* DATABASE_URLS has 8 string literals, two of them joined by a missing comma
DatabaseUrls == 7
\* --refresh-after [default: 3]
DefaultRefreshAfter == 3

Shows == 1..NShows
Versions == 1..NVersions

\* ------------------------------------------------------------- variables
VARIABLES
    now,            \* module global `now`, fixed for one invocation
    scriptVersion,  \* Database._script_version of the running script
    runs,           \* invocations started so far
    args,           \* docopt arguments of the running invocation
    pc,             \* position of the running invocation
    status,         \* how the last invocation ended
    stores,         \* per script version: the sqlite file .Filmliste.<v>.sqlite
    ledger,         \* rows of the TinyDB table 'history', in file order
    saved,          \* hashes whose media file is at the user target
    printed,        \* hashes written to stdout by list / dump
    caller,         \* who called Database.initialize: "ctor" or "if_old"
    retries,        \* local `retries` of Database._showlist
    payload,        \* the catalog the mirror served in the open attempt
    lastFetch,      \* outcome of the last requests.get of _showlist
    scratch,        \* scratch files and directories that exist on disk
    chain,          \* the filtered() generators of itertools.chain, in order
    item,           \* the item bound by `for item in shows`
    dl,             \* what Show.download did for `item`
    seen,           \* the invocation so far: the ledger and the store's
                    \* user_version it started with, whether it called
                    \* Database.initialize, whether it built the query,
                    \* the hashes it started to fetch
    writers,        \* processes inside History.insert on the same ledger
    call            \* one call of a function of the program: its
                    \* arguments and, once it returned, its result

vars == <<now, scriptVersion, runs, args, pc, status, stores, ledger, saved,
          printed, caller, retries, payload, lastFetch, scratch, chain, item,
          dl, seen, writers, call>>

\* what belongs to the invocations of main, the ledger apart
runVars == <<now, scriptVersion, runs, args, pc, status, stores, saved,
             printed, caller, retries, payload, lastFetch, scratch, chain,
             item, dl, seen>>

\* ------------------------------------------------------------ the catalog
\* What a mirror may serve: the accepted rows of a Filmliste, in file order.
Catalogs == { <<1, 2>>, <<2>> }

NoStore == [user_version |-> 0, hasTable |-> FALSE, rows |-> <<>>]

NoArgs == [command |-> "none"]
NoItem == [hash |-> 0, downloaded |-> 0]
NoDl == [hash |-> 0, result |-> "none", why |-> "none", moved |-> FALSE,
         marked |-> FALSE]
NoSeen == [ledger0 |-> <<>>, uv0 |-> 0, ingest |-> FALSE, queried |-> FALSE,
           fetched |-> {}]

\* no invocation has run yet
Idle ==
    /\ now = 0
    /\ scriptVersion = 1
    /\ runs = 0
    /\ args = NoArgs
    /\ pc = "idle"
    /\ status = "none"
    /\ stores = [v \in Versions |-> NoStore]
    /\ saved = {}
    /\ printed = {}
    /\ caller = "none"
    /\ retries = 0
    /\ payload = <<>>
    /\ lastFetch = "none"
    /\ scratch = {}
    /\ chain = <<>>
    /\ item = NoItem
    /\ dl = NoDl
    /\ seen = NoSeen

NoCall == [op |-> "none", arg |-> <<>>, done |-> FALSE, result |-> <<>>]

Init ==
    /\ Idle
    /\ ledger = <<>>
    /\ writers = <<>>
    /\ call = NoCall

\* ------------------------------------------------------- filter language
\* A filter expression after the regular expression of line 564 split it:
\* field, operator and pattern.  A pattern is kept with the kind of text it
\* is, so that int(), durationpy.from_str() and iso8601.parse_date() can
\* accept or reject it.  Malformed is a string the expression does not match.
Malformed == [field |-> "", op |-> "", pattern |-> [kind |-> "text", val |-> <<>>]]
rARD == [field |-> "channel", op |-> "=",
         pattern |-> [kind |-> "text", val |-> <<"a", "r", "d">>]]
rAll == [field |-> "size", op |-> "+", pattern |-> [kind |-> "int", val |-> 0]]
rZDF == [field |-> "channel", op |-> "=",
         pattern |-> [kind |-> "text", val |-> <<"z", "d", "f">>]]
rBig == [field |-> "size", op |-> "+", pattern |-> [kind |-> "int", val |-> 15]]
rBad == [field |-> "topic", op |-> "+",
         pattern |-> [kind |-> "text", val |-> <<"x">>]]

\* A line of the --sets file: what it is to the test of line 548 and the
\* filter expressions shlex.split finds on it.
Line(rules) == [text |-> "rules", rules |-> rules]
BlankLine == [text |-> "blank", rules |-> <<>>]
CommentLine == [text |-> "comment", rules |-> <<>>]

\* the --sets file (NoFile: the option is not given)
NoFile == [given |-> FALSE, lines |-> <<>>]
SetsFiles == { NoFile,
               [given |-> TRUE, lines |-> <<Line(<<rARD>>), Line(<<rAll>>)>>],
               [given |-> TRUE, lines |-> <<Line(<<rAll>>), Line(<<rBad>>)>>] }

\* the columns of a show the filters above read
Channel(h) == IF h = 1 THEN <<"A", "R", "D">> ELSE <<"Z", "D", "F">>
Size(h) == h * 10
Start(h) == 0 - 24 * h

\* date(t) of sqlite, as a day number
Date(t) == t \div 24

Lower(c) ==
    CASE c = "A" -> "a" [] c = "R" -> "r" [] c = "D" -> "d"
      [] c = "Z" -> "z" [] c = "F" -> "f" [] OTHER -> c

\* re.compile(expr, re.IGNORECASE).search(item) for a literal expr
Regexp(expr, value) ==
    \E i \in 0..(Len(value) - Len(expr)) :
        \A j \in 1..Len(expr) : Lower(value[i + j]) = Lower(expr[j])

RegexFields == {"description", "region", "size", "channel",
                "topic", "title", "hash", "url_http"}
DurationFields == {"duration", "age"}

FieldName(field) == IF field = "url" THEN "url_http" ELSE field

\* what the conversion of the pattern raises, "ok" when it returns
ParsePattern(kind, pattern) ==
    IF pattern.kind = kind THEN "ok"
    ELSE IF kind = "int" THEN "ValueError"
    ELSE IF kind = "duration" THEN "DurationError"
    ELSE "ParseError"

\* One pass of the loop body of Database.filtered over one rule: "ok" or
\* the exception it raises.
CompileRule(rule) ==
    IF rule = Malformed THEN "ConfigurationError"
    ELSE LET field == FieldName(rule.field) IN
        IF rule.op \in {"=", "!="} THEN
            IF field \in RegexFields THEN "ok"
            ELSE IF field \in DurationFields
                THEN ParsePattern("duration", rule.pattern)
            ELSE IF field = "start" THEN ParsePattern("date", rule.pattern)
            ELSE "ConfigurationError"
        ELSE IF rule.op \in {"-", "+"} THEN
            IF field \in DurationFields
                THEN ParsePattern("duration", rule.pattern)
            ELSE IF field = "size" THEN ParsePattern("int", rule.pattern)
            ELSE IF field = "start" THEN ParsePattern("date", rule.pattern)
            ELSE "ConfigurationError"
        ELSE "ConfigurationError"

\* the first exception the rules of one filter set raise, "ok" if none
RECURSIVE CompileRules(_)
CompileRules(rules) ==
    IF rules = <<>> THEN "ok"
    ELSE IF CompileRule(Head(rules)) # "ok" THEN CompileRule(Head(rules))
    ELSE CompileRules(Tail(rules))

\* the WHERE term a compiled rule contributes, evaluated on show h
MatchRule(h, rule) ==
    LET field == FieldName(rule.field) IN
    IF field = "channel" /\ rule.op = "="
        THEN Regexp(rule.pattern.val, Channel(h))
    ELSE IF field = "channel" /\ rule.op = "!="
        THEN ~Regexp(rule.pattern.val, Channel(h))
    ELSE IF field = "size" /\ rule.op = "+" THEN Size(h) >= rule.pattern.val
    ELSE IF field = "size" /\ rule.op = "-" THEN Size(h) <= rule.pattern.val
    ELSE FALSE

MatchAll(h, rules) == \A i \in 1..Len(rules) : MatchRule(h, rules[i])

Take(s, n) == IF Len(s) <= n THEN s ELSE SubSeq(s, 1, n)

\* the rows the SELECT of Database.filtered returns: the rows of the table
\* that satisfy every term, in table order, cut at LIMIT (0: no LIMIT)
Filtered(rows, rules, include_future, limit, today) ==
    LET hit(h) == /\ MatchAll(h, rules)
                  /\ include_future \/ Date(Start(h)) < Date(today)
        all == SelectSeq(rows, hit)
    IN  IF limit = 0 THEN all ELSE Take(all, limit)

\* filter sets that are the lines of the file alone
ReadFilterSetsBare(setsFile, defaultFilter) ==
    IF setsFile.given
        THEN LET lines == SelectSeq(setsFile.lines,
                                    LAMBDA l : l.text = "rules")
             IN  [i \in 1..Len(lines) |-> lines[i].rules]
        ELSE <<defaultFilter>>

\* Database.read_filter_sets: one filter set per line of the file that is
\* neither blank nor a comment, each with the command line filters in
\* front; the command line filters alone without a file
ReadFilterSets(setsFile, defaultFilter) ==
    IF setsFile.given
        THEN LET lines == SelectSeq(setsFile.lines,
                                    LAMBDA l : l.text = "rules")
             IN  [i \in 1..Len(lines) |-> defaultFilter \o lines[i].rules]
        ELSE <<defaultFilter>>

\* ------------------------------------------------------ end of invocation
\* main() returns or an exception leaves it; `how` is "ok" or the exception.
\* ConfigurationError and KeyboardInterrupt are caught by main, every other
\* exception reaches sys.excepthook.
EndRun(how) ==
    /\ pc' = "idle"
    /\ status' = how
    /\ caller' = "none"
    /\ retries' = 0
    /\ payload' = <<>>
    /\ chain' = <<>>
    /\ item' = NoItem

\* --------------------------------------------------------- catalog store
Store == stores[scriptVersion]

\* sqlite executing a statement of Database.initialize against the store
Execute(stmt, store) ==
    IF stmt = "CREATE TABLE show"
        THEN IF store.hasTable THEN "OperationalError" ELSE "ok"
    ELSE IF stmt = "DELETE FROM show" THEN "ok"
    ELSE "OperationalError"      \* "DELETE TABLE show" is no SQL statement

\* Database.__init__
OpenDatabase ==
    /\ pc = "main"
    /\ args.command \in {"list", "dump", "download"}
    /\ IF Store.user_version = 0
          THEN pc' = "initialize" /\ caller' = "ctor"
          ELSE pc' = "if_old" /\ caller' = "none"
    /\ seen' = [seen EXCEPT !.ingest = Store.user_version = 0]
    /\ UNCHANGED <<writers, call, now, scriptVersion, runs, args, status, stores, ledger,
                   saved, printed, retries, payload, lastFetch, scratch,
                   chain, item, dl>>

\* Database.initialize up to the first commit
Initialize ==
    /\ pc = "initialize"
    /\ IF Execute("CREATE TABLE show", Store) = "ok"
          \/ Execute("DELETE TABLE show", Store) = "ok"
          THEN /\ stores' = [stores EXCEPT ![scriptVersion] =
                      [user_version |-> now, hasTable |-> TRUE, rows |-> <<>>]]
               /\ pc' = "showlist"
               /\ retries' = DatabaseUrls
               /\ UNCHANGED <<status, caller, payload, chain, item>>
          ELSE /\ EndRun("OperationalError")
               /\ UNCHANGED stores
    /\ UNCHANGED <<writers, call, now, scriptVersion, runs, args, ledger, saved, printed,
                   lastFetch, scratch, dl, seen>>

\* what one requests.get of the catalog and the copy to the scratch file do
FetchOutcomes == {"ok", "HTTPError", "ConnectionError", "ChunkedEncodingError"}

\* the except clause of Database._showlist
Retried(outcome) == outcome = "HTTPError"

\* the finally clause of Database._showlist
RemovePayload(files) == files \ {"payload.xz"}

\* one pass of the while loop of Database._showlist, up to the yield
ShowlistAttempt ==
    /\ pc = "showlist"
    /\ retries > 0
    /\ \E outcome \in FetchOutcomes :
        /\ lastFetch' = outcome
        /\ IF outcome = "ok"
              THEN /\ scratch' = scratch \cup {"payload.xz"}
                   /\ \E c \in Catalogs : payload' = c
                   /\ pc' = "get_shows"
                   /\ retries' = retries - 1
                   /\ UNCHANGED <<status, caller, chain, item>>
           ELSE IF Retried(outcome) /\ retries - 1 > 0
              THEN /\ retries' = retries - 1
                   /\ UNCHANGED <<scratch, payload, pc, status, caller,
                                  chain, item>>
           ELSE /\ scratch' = IF outcome = "ChunkedEncodingError"
                                 THEN RemovePayload(scratch \cup {"payload.xz"})
                                 ELSE scratch
                /\ EndRun(outcome)
    /\ UNCHANGED <<writers, call, now, scriptVersion, runs, args, stores, ledger, saved,
                   printed, dl, seen>>

\* what reading the payload does: lzma.open, json.load and the row loop
ReadOutcomes == {"ok", "LZMAError"}

\* Database._get_shows consumed by executemany, the second commit of
\* Database.initialize and the return to its caller
GetShows ==
    /\ pc = "get_shows"
    /\ scratch' = RemovePayload(scratch)
    /\ \E outcome \in ReadOutcomes :
        IF outcome = "ok"
           THEN /\ stores' = [stores EXCEPT ![scriptVersion].rows = @ \o payload]
                /\ pc' = IF caller = "ctor" THEN "if_old" ELSE "query"
                /\ caller' = "none"
                /\ retries' = 0
                /\ payload' = <<>>
                /\ lastFetch' = "none"
                /\ UNCHANGED <<status, chain, item>>
           ELSE /\ EndRun(outcome)
                /\ UNCHANGED <<stores, lastFetch>>
    /\ UNCHANGED <<writers, call, now, scriptVersion, runs, args, ledger, saved, printed,
                   dl, seen, writers, call>>

\* the comparison of Database.initialize_if_old
TooOld(age, refresh_after) == age > refresh_after

\* Database.initialize_if_old
InitializeIfOld ==
    /\ pc = "if_old"
    /\ IF TooOld(now - Store.user_version, args.refresh_after)
          THEN pc' = "initialize" /\ caller' = "if_old"
          ELSE pc' = "query" /\ caller' = "none"
    /\ seen' = [seen EXCEPT
                    !.ingest = @ \/ TooOld(now - Store.user_version,
                                           args.refresh_after)]
    /\ UNCHANGED <<writers, call, now, scriptVersion, runs, args, status, stores, ledger,
                   saved, printed, retries, payload, lastFetch, scratch,
                   chain, item, dl>>

\* a generator object of Database.filtered whose body did not run yet
Generator(rules) == [rules |-> rules, started |-> FALSE, rest |-> <<>>]

\* main, lines 1060-1067: itertools.chain over one filtered() generator per
\* filter set; no body has run yet
Chain(a) ==
    LET sets == ReadFilterSets(a.sets, a.filter)
    IN  [i \in 1..Len(sets) |-> Generator(sets[i])]

\* main, lines 1059-1068: the chain wrapped in the history.check generator
Query ==
    /\ pc = "query"
    /\ chain' = Chain(args)
    /\ pc' = IF args.command = "download" THEN "loop" ELSE "print"
    /\ seen' = [seen EXCEPT !.queried = TRUE]
    /\ UNCHANGED <<writers, call, now, scriptVersion, runs, args, status, stores, ledger,
                   saved, printed, caller, retries, payload, lastFetch,
                   scratch, item, dl>>

\* -------------------------------------------------------- history ledger
Entry(h, t) == [hash |-> h, downloaded |-> t]

Hashes(docs) == { docs[i].hash : i \in 1..Len(docs) }

EntriesOf(docs, h) == SelectSeq(docs, LAMBDA d : d.hash = h)

\* the body of the loop of History.check: db.get(row.hash == item['hash'])
\* is the first document with that hash; 0 stands for False
Check(docs, h) ==
    IF EntriesOf(docs, h) = <<>> THEN 0 ELSE Head(EntriesOf(docs, h)).downloaded

\* History.insert: TinyDB.insert appends a document
Insert(docs, doc) == Append(docs, doc)

\* History.remove: TinyDB.remove drops every document the query matches
Remove(docs, h) == SelectSeq(docs, LAMBDA d : d.hash # h)

\* History.purge
Purge(docs) == <<>>

\* main, lines 1047-1053: the history command
HistoryCommand ==
    /\ pc = "main"
    /\ args.command = "history"
    /\ IF args.reset THEN ledger' = Purge(ledger) /\ UNCHANGED printed
       ELSE IF args.remove # 0
          THEN ledger' = Remove(ledger, args.remove) /\ UNCHANGED printed
       ELSE printed' = Hashes(ledger) /\ UNCHANGED ledger
    /\ EndRun("ok")
    /\ UNCHANGED <<writers, call, now, scriptVersion, runs, args, stores, saved, lastFetch,
                   scratch, dl, seen>>

\* ------------------------------------------------------ the result chain
\* next() on the chain of filtered() generators.  The body of a generator
\* runs when the chain first reaches it: it compiles its rules, which may
\* raise, and runs its query.  The result is the item, the end of the chain
\* or the exception, and the chain left behind.
RECURSIVE NextOf(_, _, _, _)
NextOf(ch, rows, a, today) ==
    IF ch = <<>>
        THEN [kind |-> "stop", hash |-> 0, chain |-> <<>>, error |-> "none"]
    ELSE LET g == Head(ch) IN
        IF ~g.started THEN
            IF CompileRules(g.rules) # "ok"
                THEN [kind |-> "raise", hash |-> 0, chain |-> <<>>,
                      error |-> CompileRules(g.rules)]
            ELSE NextOf(<<[g EXCEPT !.started = TRUE,
                                    !.rest = Filtered(rows, g.rules,
                                        a.include_future, a.limit, today)]>>
                        \o Tail(ch), rows, a, today)
        ELSE IF g.rest = <<>> THEN NextOf(Tail(ch), rows, a, today)
        ELSE [kind |-> "item", hash |-> Head(g.rest),
              chain |-> <<[g EXCEPT !.rest = Tail(@)]>> \o Tail(ch),
              error |-> "none"]

\* list(shows): every item of the chain, or the exception that ends it;
\* items holds what was produced before
RECURSIVE Drain(_, _, _, _, _)
Drain(ch, rows, a, today, items) ==
    LET r == NextOf(ch, rows, a, today) IN
    IF r.kind = "item"
        THEN Drain(r.chain, rows, a, today, Append(items, r.hash))
    ELSE [error |-> r.error, items |-> items]

\* main, lines 1070-1074: list and dump build the whole table or list
\* before they print it
PrintShows ==
    /\ pc = "print"
    /\ LET r == Drain(chain, Store.rows, args, now, <<>>) IN
        /\ printed' = IF r.error = "none"
                         THEN { r.items[i] : i \in 1..Len(r.items) }
                         ELSE {}
        /\ EndRun(IF r.error = "none" THEN "ok" ELSE r.error)
    /\ UNCHANGED <<writers, call, now, scriptVersion, runs, args, stores, ledger, saved,
                   lastFetch, scratch, dl, seen>>

\* a check that ran over the whole result before the loop started
CheckViewAtStart == seen.ledger0

\* the ledger History.check reads when it is asked for the next item
CheckView == ledger

\* main, line 1077: `for item in shows` asks history.check for one item,
\* which asks the chain for one
LoopNext ==
    /\ pc = "loop"
    /\ LET r == NextOf(chain, Store.rows, args, now) IN
        IF r.kind = "item"
           THEN /\ item' = [hash |-> r.hash,
                            downloaded |-> Check(CheckView, r.hash)]
                /\ chain' = r.chain
                /\ pc' = "body"
                /\ UNCHANGED <<status, caller, retries, payload>>
           ELSE EndRun(IF r.kind = "stop" THEN "ok" ELSE r.error)
    /\ dl' = NoDl
    /\ UNCHANGED <<writers, call, now, scriptVersion, runs, args, stores, ledger, saved,
                   printed, lastFetch, scratch, seen>>

\* ---------------------------------------------------------- Show.download
\* url_subtitles of a show is set or empty
HasSubtitles(h) == h = 1

\* everything below the directory tempfile.mkdtemp made
TmpFiles == {"tmp", "tmp/media", "tmp/segment", "tmp/out.ts", "tmp/subtitles"}

\* a download that leaves its scratch directory behind
KeepTree(files) == files

\* the finally clause of Show.download: shutil.rmtree(temp_path)
RmTree(files) == files \ TmpFiles

\* an except clause that names the network errors only
CaughtNetworkOnly(e) == e \in {"RequestException"}

\* the except clause of Show.download
Caught(e) == e \in {"RequestException", "OSError"}

\* a loop that takes every item of the result
WantedAlways(it, a) == TRUE

\* main, line 1079: `not show.get('downloaded') or arguments['--oblivious']`
Wanted(it, a) == it.downloaded = 0 \/ a.oblivious

\* main, lines 1078-1096 up to the call of show.download
Body ==
    /\ pc = "body"
    /\ IF Wanted(item, args)
          THEN IF ~args.mark_only
                  THEN /\ scratch' = scratch \cup {"tmp"}
                       /\ dl' = [NoDl EXCEPT !.hash = item.hash,
                                             !.result = "running"]
                       /\ pc' = "dl_files"
                       /\ UNCHANGED <<ledger, item>>
                  ELSE /\ ledger' = Insert(ledger, Entry(item.hash, now))
                       /\ pc' = "loop"
                       /\ UNCHANGED <<scratch, dl, item>>
          ELSE /\ pc' = "loop"
               /\ UNCHANGED <<scratch, dl, ledger, item>>
    /\ UNCHANGED <<writers, call, now, scriptVersion, runs, args, status, stores, saved,
                   printed, caller, retries, payload, lastFetch, chain, seen>>

\* Show.download is left by an exception e, with `files` on disk: caught
\* ones make it return None to main, line 1089; the others leave main.
\* The scratch directory is removed on the way.
Leave(files, d, e) ==
    /\ scratch' = RmTree(files)
    /\ IF Caught(e)
          THEN /\ dl' = [d EXCEPT !.result = "None", !.why = e]
               /\ pc' = "mark"
               /\ UNCHANGED <<status, caller, retries, payload, chain, item>>
          ELSE /\ dl' = [d EXCEPT !.result = "raised", !.why = e]
               /\ EndRun(e)

\* Show.download returns at line 933 (value None) or line 941 (a path)
Return(files, d, value, why) ==
    /\ scratch' = RmTree(files)
    /\ dl' = [d EXCEPT !.result = value, !.why = why]
    /\ pc' = "mark"
    /\ UNCHANGED <<status, caller, retries, payload, chain, item>>

\* what a transfer of Show._download_files can raise
TransferErrors == {"RequestException", "OSError", "KeyboardInterrupt"}

\* the extension of the file name the server gave the primary file
Extensions == {".mp4", ".m3u8", ".html"}

\* Show.download, lines 906-933: the primary file
DownloadFiles ==
    /\ pc = "dl_files"
    /\ \/ \E e \in TransferErrors : Leave(scratch, dl, e)
       \/ \E ext \in Extensions :
            IF ext \in {".mp4", ".flv", ".mp3"}
               THEN /\ scratch' = scratch \cup {"tmp/media"}
                    /\ pc' = "dl_move"
                    /\ UNCHANGED <<dl, status, caller, retries, payload,
                                   chain, item>>
            ELSE IF ext = ".m3u8"
               THEN /\ scratch' = scratch \cup {"tmp/media"}
                    /\ pc' = "dl_hls"
                    /\ UNCHANGED <<dl, status, caller, retries, payload,
                                   chain, item>>
            ELSE Return(scratch \cup {"tmp/media"}, dl, "None", "unsupported")
    /\ seen' = [seen EXCEPT !.fetched = @ \cup {item.hash}]
    /\ UNCHANGED <<writers, call, now, scriptVersion, runs, args, stores, ledger, saved,
                   printed, lastFetch>>

\* -------------------------------------------------- adaptive manifests
\* A variant of a master manifest: the BANDWIDTH attribute of its
\* #EXT-X-STREAM-INF line and the codecs its CODECS attribute lists, in the
\* order of the list; bandwidth 0 and codecs <<>>: no such attribute.
Variant(b, c) == [bandwidth |-> b, codecs |-> c]

\* master manifests a server may send
Manifests == { <<>>,
               <<Variant(0, <<"avc1">>)>>,
               <<Variant(100, <<"mp4a">>)>>,
               <<Variant(100, <<>>)>>,
               <<Variant(200, <<"avc1">>), Variant(100, <<"avc1">>)>> }

\* Show._get_m3u8_segments, line 805: the value of an attribute ends at the
\* first comma, so of a list of codecs the first is kept; "None" is what
\* s.get('codecs') gives without the attribute
Codecs(v) == IF v.codecs = <<>> THEN "None" ELSE Head(v.codecs)

\* list.sort(key=bandwidth): stable insertion into the sorted prefix
RECURSIVE SortByBandwidth(_)
SortByBandwidth(vs) ==
    IF vs = <<>> THEN <<>>
    ELSE LET v == vs[Len(vs)]
             front == SortByBandwidth(SubSeq(vs, 1, Len(vs) - 1))
             le == SelectSeq(front, LAMBDA w : w.bandwidth <= v.bandwidth)
             gt == SelectSeq(front, LAMBDA w : w.bandwidth > v.bandwidth)
         IN  le \o <<v>> \o gt

\* Show._download_hls_target, lines 826-839: the variant it selects, or
\* the exception the filters or the subscript raise
SelectVariant(manifest, quality) ==
    IF \E i \in 1..Len(manifest) : Codecs(manifest[i]) = "None"
        THEN [error |-> "TypeError", bandwidth |-> 0]
    ELSE LET video == SelectSeq(manifest, LAMBDA v : Codecs(v) # "mp4a")
             rated == SelectSeq(video, LAMBDA v : v.bandwidth # 0)
             sorted == SortByBandwidth(rated)
             n == Len(sorted)
         IN  IF n = 0 THEN [error |-> "IndexError", bandwidth |-> 0]
             ELSE [error |-> "none",
                   bandwidth |-> IF quality = "_hd" THEN sorted[n].bandwidth
                                 ELSE IF quality = "_small"
                                     THEN sorted[1].bandwidth
                                 ELSE sorted[(n \div 2) + 1].bandwidth]

\* main, lines 1081-1086: the first entry of quality_preference
Quality(a) == IF a.high THEN "_hd" ELSE IF a.low THEN "_small" ELSE ""

\* Show.download, lines 927-929: Show._download_hls_target
DownloadHls ==
    /\ pc = "dl_hls"
    /\ \/ \E m \in Manifests :
            LET v == SelectVariant(m, Quality(args)) IN
            IF v.error # "none" THEN Leave(scratch, dl, v.error)
            ELSE /\ scratch' = scratch \cup {"tmp/out.ts"}
                 /\ pc' = "dl_move"
                 /\ UNCHANGED <<dl, status, caller, retries, payload, chain,
                                item>>
       \/ \E e \in TransferErrors : Leave(scratch \cup {"tmp/segment"}, dl, e)
    /\ UNCHANGED <<writers, call, now, scriptVersion, runs, args, stores, ledger, saved,
                   printed, lastFetch, seen>>

\* what Show._move_to_user_target does: the move, the OSError of
\* shutil.move it logs, or the OSError of mkdir it lets through
MoveOutcomes == {"ok", "move failed", "OSError"}

\* Show.download, lines 924 and 929 to 935: the media file goes to the user
\* target, then the subtitles are due or download returns the path
MoveToUserTarget ==
    /\ pc = "dl_move"
    /\ \/ \E o \in MoveOutcomes :
            LET files == IF o = "ok" THEN scratch \ {"tmp/media", "tmp/out.ts"}
                                     ELSE scratch
                d == [dl EXCEPT !.moved = (o = "ok")]
            IN  /\ saved' = IF o = "ok" THEN saved \cup {item.hash} ELSE saved
                /\ IF o = "OSError" THEN Leave(files, d, "OSError")
                   ELSE IF ~args.no_subtitles /\ HasSubtitles(item.hash)
                      THEN /\ scratch' = files
                           /\ dl' = d
                           /\ pc' = "dl_subs"
                           /\ UNCHANGED <<status, caller, retries, payload,
                                          chain, item>>
                   ELSE Return(files, d, "path", o)
       \/ Leave(scratch, dl, "KeyboardInterrupt") /\ UNCHANGED saved
    /\ UNCHANGED <<writers, call, now, scriptVersion, runs, args, stores, ledger, printed,
                   lastFetch, seen>>

\* Show.download, lines 935-941: the subtitles
DownloadSubtitles ==
    /\ pc = "dl_subs"
    /\ \/ \E e \in TransferErrors : Leave(scratch \cup {"tmp/subtitles"}, dl, e)
       \/ Return(scratch \cup {"tmp/subtitles"}, dl, "path",
                 IF dl.moved THEN "ok" ELSE "move failed")
    /\ UNCHANGED <<writers, call, now, scriptVersion, runs, args, stores, ledger, saved,
                   printed, lastFetch, seen>>

\* main, lines 1089-1090, after show.download returned
Mark ==
    /\ pc = "mark"
    /\ item' = [item EXCEPT !.downloaded = now]
    /\ ledger' = Insert(ledger, Entry(item.hash, now))
    /\ dl' = [dl EXCEPT !.marked = TRUE]
    /\ pc' = "loop"
    /\ UNCHANGED <<writers, call, now, scriptVersion, runs, args, status, stores, saved,
                   printed, caller, retries, payload, lastFetch, scratch,
                   chain, seen>>

\* ------------------------------------------------------------ invocations
\* hours that pass between two invocations
TimeSteps == {3, 4}

\* --count of the list command [default: 50]
Counts == {1, 50}

\* the options every command line has, at their defaults
Defaults == [command |-> "none", oblivious |-> FALSE, mark_only |-> FALSE,
             high |-> FALSE, low |-> FALSE, no_subtitles |-> FALSE,
             include_future |-> FALSE, filter |-> <<>>, sets |-> NoFile,
             limit |-> 0, reset |-> FALSE, remove |-> 0,
             refresh_after |-> DefaultRefreshAfter]

\* the filters of a command line: <filter>... and the --sets file
Plain == [filter |-> <<>>, sets |-> NoFile]
Queries == { Plain, [filter |-> <<rBad>>, sets |-> NoFile] }
           \cup { [filter |-> <<>>, sets |-> f] : f \in SetsFiles }

Download(q) == [Defaults EXCEPT !.command = "download", !.filter = q.filter,
                                !.sets = q.sets]

DownloadArgs ==
    { [Download(q) EXCEPT !.oblivious = o, !.mark_only = m] :
        q \in Queries, o \in BOOLEAN, m \in BOOLEAN }
    \cup { [Download(Plain) EXCEPT !.high = TRUE],
           [Download(Plain) EXCEPT !.low = TRUE],
           [Download(Plain) EXCEPT !.no_subtitles = TRUE] }

ListArgs ==
    { [Defaults EXCEPT !.command = k, !.filter = q.filter, !.sets = q.sets,
                       !.limit = IF k = "list" THEN n ELSE 0] :
        k \in {"list", "dump"}, q \in Queries, n \in Counts }
    \cup { [Defaults EXCEPT !.command = "dump", !.include_future = TRUE] }

HistoryArgs ==
    { [Defaults EXCEPT !.command = "history", !.reset = TRUE] }
    \cup { [Defaults EXCEPT !.command = "history", !.remove = h] :
            h \in 0..NShows }

CommandLines == DownloadArgs \cup ListArgs \cup HistoryArgs

\* the script is started: docopt, load_config, and the module globals
StartRun ==
    /\ pc = "idle"
    /\ runs < MaxRuns
    /\ runs' = runs + 1
    /\ \E t \in TimeSteps : now' = now + t
    /\ \E v \in {scriptVersion, scriptVersion + 1} \cap Versions :
            scriptVersion' = v
    /\ \E a \in CommandLines : args' = a
    /\ pc' = "main"
    /\ status' = "running"
    /\ printed' = {}
    /\ dl' = NoDl
    /\ seen' = [NoSeen EXCEPT !.ledger0 = ledger,
                               !.uv0 = stores[scriptVersion'].user_version]
    /\ lastFetch' = "none"
    /\ UNCHANGED <<writers, call, stores, ledger, saved, caller, retries,
                   payload, scratch,
                   chain, item>>

Next ==
    \/ StartRun
    \/ HistoryCommand
    \/ OpenDatabase
    \/ Initialize
    \/ ShowlistAttempt
    \/ GetShows
    \/ InitializeIfOld
    \/ Query
    \/ PrintShows
    \/ LoopNext
    \/ Body
    \/ DownloadFiles
    \/ DownloadHls
    \/ MoveToUserTarget
    \/ DownloadSubtitles
    \/ Mark

Spec == Init /\ [][Next]_vars

\* ------------------------------------------------------------ properties
InDownload == pc \in {"dl_files", "dl_hls", "dl_move", "dl_subs"}

CatalogCommand == args.command \in {"list", "dump", "download"}

\* C1: in a download run a history entry is written for a show only if its
\* media file was moved to the destination; a failed fetch, an unsupported
\* format or a failed move leaves the ledger without a new entry for it.
C1_MarkedOnlyIfSaved == dl.marked => dl.moved

\* C2: the ledger holds at most one entry per fingerprint, whatever
\* sequence of download, mark-only, remove and reset operations ran.
C2_OneEntryPerFingerprint ==
    \A h \in Shows : Len(EntriesOf(ledger, h)) <= 1

\* C3: an invocation that ends with the configuration error of an invalid
\* filter expression has produced no result: it listed nothing, started no
\* fetch and left the ledger as it found it.
C3_InvalidFilterNoResults ==
    status = "ConfigurationError" =>
        /\ printed = {}
        /\ seen.fetched = {}
        /\ ledger = seen.ledger0

\* C4: the re-ingestion that initialize_if_old starts on an existing store
\* completes its first step: it drops the previous records and goes on to
\* fetch the new catalog.
C4_ReingestionReplaces ==
    [][(pc = "initialize" /\ caller = "if_old") =>
        (pc' = "showlist" /\ stores'[scriptVersion].rows = <<>>)]_vars

\* C5: once the freshness checks of an invocation are over, the store has
\* been re-ingested in this invocation (it carries the timestamp of this
\* invocation) if and only if it had no catalog for the running script
\* version or its catalog was older than the refresh-after threshold.
C5_ReingestedIffStale ==
    (CatalogCommand /\ pc \notin {"main", "if_old", "initialize"}) =>
        ((Store.user_version = now) <=>
            (seen.uv0 = 0 \/ now - seen.uv0 > args.refresh_after))

\* C6: an attempt of the catalog fetch that fails is followed by another
\* attempt while attempts remain, and by an error that ends the ingestion
\* when it was the last of the len(DATABASE_URLS) attempts.
C6_FailedAttemptRetried ==
    [][(pc = "showlist" /\ lastFetch' \notin {"ok", "none"}) =>
        IF retries > 1
            THEN pc' = "showlist" /\ retries' = retries - 1
            ELSE pc' = "idle" /\ status' \notin {"ok", "running"}]_vars

\* C7: a manifest without an eligible variant makes Show.download return
\* the failure value for that show; the invocation goes on.
C7_EmptyManifestSkipsShow ==
    dl.why = "IndexError" => (dl.result = "None" /\ status = "running")

C9_ScratchRemoved ==
    /\ ~InDownload => scratch \cap TmpFiles = {}
    /\ pc # "get_shows" => "payload.xz" \notin scratch

C9_Witness ==
    /\ pc = "idle"
    /\ dl.result = "raised"
    /\ dl.why = "KeyboardInterrupt"

\* C10: when the loop body starts for an item, no download of an earlier
\* item is in flight, and a history entry this invocation wrote for the
\* item's fingerprint was seen by the item's history check.
C10_MarkVisibleToLaterCheck ==
    pc = "body" =>
        /\ dl.result = "none"
        /\ (\E i \in 1..Len(ledger) : ledger[i] = Entry(item.hash, now))
                => item.downloaded # 0

C10_Witness == pc = "body" /\ item.downloaded = now

\* ------------------------------------------- processes on the same ledger
\* Several processes run History.insert on the file .history._db of the same
\* directory.  History.db opens the file with TinyDB and takes no lock;
\* TinyDB.insert reads the table from the file, adds the document and writes
\* the table back.
NWriters == 2
Writers == 1..NWriters

\* times at which invocations of different processes started
WriterTimes == {1, 2}

\* what the file holds when the processes start
StartLedgers == { <<>>, <<Entry(1, 1)>>, <<Entry(2, 1)>> }

Writer(doc) == [pc |-> "insert", doc |-> doc, data |-> <<>>]

InitLedger ==
    /\ Idle
    /\ call = NoCall
    /\ \E l \in StartLedgers : ledger = l
    /\ writers \in [Writers -> { Writer(Entry(h, t)) :
                                    h \in Shows, t \in WriterTimes }]

\* History.insert of process p, first half: TinyDB reads the file
InsertRead(p) ==
    /\ writers[p].pc = "insert"
    /\ writers' = [writers EXCEPT ![p].pc = "write", ![p].data = ledger]
    /\ UNCHANGED <<ledger, call, runVars>>

\* History.insert of process p, second half: TinyDB writes what it read
\* plus the document, and insert returns
InsertWrite(p) ==
    /\ writers[p].pc = "write"
    /\ ledger' = Insert(writers[p].data, writers[p].doc)
    /\ writers' = [writers EXCEPT ![p].pc = "returned", ![p].data = <<>>]
    /\ UNCHANGED <<call, runVars>>

NextLedger ==
    \/ \E p \in Writers : InsertRead(p)
    \/ \E p \in Writers : InsertWrite(p)

SpecLedger == InitLedger /\ [][NextLedger]_vars

\* C11: inserts of concurrent processes into the same ledger are
\* serialized: the entry of every process whose insert returned is in the
\* ledger (no process of the program ever fails with a lock timeout).
C11_InsertsSerialized ==
    \A p \in Writers :
        writers[p].pc = "returned" =>
            \E i \in 1..Len(ledger) : ledger[i] = writers[p].doc

\* C12: in the download loop a show whose fingerprint is in the ledger is
\* passed over without a fetch and without a new entry unless --oblivious is
\* given, and is fetched again when it is given; with --mark-only the loop
\* fetches nothing and writes an entry with the time of the invocation for
\* every show of the result that has none; a fetch starts nowhere else.
C12_LedgerGuardsFetch ==
    [][/\ pc' = "dl_files" => (pc = "body" /\ ~args.mark_only)
       /\ pc = "body" =>
            /\ (~args.oblivious /\ item.hash \in Hashes(ledger)) =>
                    (pc' = "loop" /\ ledger' = ledger /\ scratch' = scratch)
            /\ (args.oblivious /\ ~args.mark_only) => pc' = "dl_files"
            /\ args.mark_only =>
                    /\ pc' = "loop"
                    /\ scratch' = scratch
                    /\ item.hash \notin Hashes(ledger) =>
                         ledger' = Append(ledger, Entry(item.hash, now))]_vars

C12_Witness ==
    /\ pc = "loop"
    /\ args.command = "download"
    /\ ~args.oblivious
    /\ item.downloaded \notin {0, now}
    /\ seen.fetched = {}

\* ------------------------------------------------- calls of one function
\* A function of the program is called once on arguments drawn from a
\* bounded set; `call` holds the arguments and then the result.
Call(op, arg) == [op |-> op, arg |-> arg, done |-> FALSE, result |-> <<>>]

Returned(op) == call.op = op /\ call.done

\* sequences over S of length 0..n
SeqsUpTo(S, n) == UNION { [1..k -> S] : k \in 0..n }

\* the lines a --sets file is made of, and the longest file
MaxLines == 3
Lines == { Line(<<rARD>>), Line(<<rZDF>>), Line(<<rAll, rBig>>),
           BlankLine, CommentLine }

\* list, dump or download with a --sets file: the options the query reads,
\* the rows of the table and the day of the invocation
QueryInputs(maxLines) ==
    { Call("query",
           [a |-> [Defaults EXCEPT !.sets = [given |-> TRUE, lines |-> ls],
                                   !.filter = f, !.limit = n,
                                   !.include_future = incl],
            rows |-> rows, today |-> 3]) :
        ls \in SeqsUpTo(Lines, maxLines),
        f \in { <<>>, <<rBig>>, <<rARD>> },
        n \in {0, 1},
        incl \in BOOLEAN,
        rows \in { <<1, 2>>, <<2, 1>> } }

\* main, lines 1059-1074: list(shows) over the chain
QueryCall ==
    /\ call.op = "query"
    /\ ~call.done
    /\ call' = [call EXCEPT !.done = TRUE,
                            !.result = Drain(Chain(call.arg.a), call.arg.rows,
                                             call.arg.a, call.arg.today, <<>>)]
    /\ UNCHANGED <<runVars, ledger, writers>>

\* filter expressions: every field the program knows and one it does not,
\* the four operators and one more, a pattern of every kind, and a string
\* without the shape of an expression
FilterFields == RegexFields \cup DurationFields \cup {"start", "url", "foo"}
FilterOps == {"=", "!=", "+", "-", ">="}
Patterns == { [kind |-> "text", val |-> <<"x">>], [kind |-> "int", val |-> 5],
              [kind |-> "duration", val |-> 1], [kind |-> "date", val |-> 0] }

CompileInputs ==
    { Call("compile", [field |-> f, op |-> o, pattern |-> pt]) :
        f \in FilterFields, o \in FilterOps, pt \in Patterns }
    \cup { Call("compile", Malformed) }

\* Database.filtered, lines 563-634, on one expression
CompileCall ==
    /\ call.op = "compile"
    /\ ~call.done
    /\ call' = [call EXCEPT !.done = TRUE, !.result = CompileRule(call.arg)]
    /\ UNCHANGED <<runVars, ledger, writers>>

\* the hours at which a query without filters runs: before, between and
\* after the starts of the shows, on their days and on later days
Todays == (0 - 24 * NShows - 2)..3

FilteredInputs ==
    { Call("filtered", [rows |-> rows, include_future |-> incl, today |-> t]) :
        rows \in { <<1, 2>>, <<2, 1>>, <<1>>, <<2>> },
        incl \in BOOLEAN,
        t \in Todays }

\* Database.filtered, lines 636-648, without rules and without limit
FilteredCall ==
    /\ call.op = "filtered"
    /\ ~call.done
    /\ call' = [call EXCEPT !.done = TRUE,
                            !.result = Filtered(call.arg.rows, <<>>,
                                                call.arg.include_future, 0,
                                                call.arg.today)]
    /\ UNCHANGED <<runVars, ledger, writers>>

\* the variants a master manifest is made of, and the longest manifest
MaxVariants == 3
Variants ==
    { Variant(b, c) : b \in {0, 100, 200, 300},
                      c \in { <<"avc1">>, <<"mp4a">>, <<"mp4a", "avc1">> } }
    \cup { Variant(200, <<"avc1", "mp4a">>), Variant(100, <<>>) }

SelectInputs(maxVariants) ==
    { Call("select", [manifest |-> m, quality |-> q]) :
        m \in SeqsUpTo(Variants, maxVariants), q \in {"_hd", "_small", ""} }

\* Show._download_hls_target, lines 826-839
SelectCall ==
    /\ call.op = "select"
    /\ ~call.done
    /\ call' = [call EXCEPT !.done = TRUE,
                            !.result = SelectVariant(call.arg.manifest,
                                                     call.arg.quality)]
    /\ UNCHANGED <<runVars, ledger, writers>>

\* A URL below the directory of the master manifest: a directory and a
\* file name.  The body a server sends for a URL is written as the URL.
Url(dir, file) == [dir |-> dir, file |-> file]
MasterUrl == Url("", "master.m3u8")
NoUrl == Url("", "")

\* A line of a variant manifest as the loop of _get_m3u8_segments reads it,
\* with its line end: a URI, a tag or comment (it starts with '#'), or a
\* line that holds nothing but the line end.
UriLine(dir, file) == [kind |-> "uri", url |-> Url(dir, file)]
TagLine == [kind |-> "tag", url |-> NoUrl]
EmptyLine == [kind |-> "empty", url |-> NoUrl]

\* urllib.parse.urljoin(base_url, line.strip()): a relative reference is
\* resolved against the base, an empty one is the base itself
UrlJoin(base, line) == IF line.kind = "empty" THEN base ELSE line.url

\* Show._get_m3u8_segments on a variant manifest: `not line` is false for
\* every line the file iterator gives, a line that starts with '#' yields
\* nothing, every other line yields a segment
Yields(line) == line.kind # "tag"

GetM3u8Segments(base, lines) ==
    LET kept == SelectSeq(lines, Yields)
    IN  [i \in 1..Len(kept) |-> UrlJoin(base, kept[i])]

\* os.path.basename(url), the name of the file a URL is saved under
Basename(url) == url.file

\* the lines a variant manifest is made of, and the longest manifest
MaxSegmentLines == 3
SegmentLines == { UriLine("", "a.ts"), UriLine("", "b.ts"),
                  UriLine("d", "a.ts"), TagLine, EmptyLine }

\* the reassembly before it read the manifest: the segment URLs to fetch,
\* the segment file the generator of _download_files yielded last, the
\* segment files in the scratch directory and the bodies in the output file
NoSegments == [stage |-> "manifest", todo |-> <<>>, cur |-> NoUrl,
               files |-> {}, out |-> <<>>]

ReassembleInputs(maxLines) ==
    { [Call("reassemble", ls) EXCEPT !.result = NoSegments] :
        ls \in SeqsUpTo(SegmentLines, maxLines) }

\* Show._download_hls_target, lines 846-852: the segment list; the
\* generator of _download_files has not run yet
ReadSegments ==
    /\ call.op = "reassemble"
    /\ call.result.stage = "manifest"
    /\ call' = [call EXCEPT
                    !.result.stage = "join",
                    !.result.todo = GetM3u8Segments(MasterUrl, call.arg)]
    /\ UNCHANGED <<runVars, ledger, writers>>

\* the for statement of line 853 asks the generator for the next path: one
\* pass of the loop of _download_files up to the yield, or its end, which
\* ends the with block and makes _download_hls_target return
SegmentFetch ==
    /\ call.op = "reassemble"
    /\ call.result.stage = "join"
    /\ call.result.cur = NoUrl
    /\ ~call.done
    /\ IF call.result.todo = <<>>
          THEN call' = [call EXCEPT !.done = TRUE]
          ELSE call' = [call EXCEPT
                    !.result.todo = Tail(@),
                    !.result.cur = Head(call.result.todo),
                    !.result.files = @ \cup {Basename(Head(call.result.todo))}]
    /\ UNCHANGED <<runVars, ledger, writers>>

\* lines 855-859: the body of the loop appends the file and unlinks it
SegmentAppend ==
    /\ call.op = "reassemble"
    /\ call.result.stage = "join"
    /\ call.result.cur # NoUrl
    /\ call' = [call EXCEPT
                    !.result.out = Append(@, call.result.cur),
                    !.result.files = @ \ {Basename(call.result.cur)},
                    !.result.cur = NoUrl]
    /\ UNCHANGED <<runVars, ledger, writers>>

\* An 'X' row of the Filmliste after dict(zip(header, p[1])): the fields
\* _get_shows tests or carries forward; "" is an empty field.
Row(channel, topic, region, start, url, size) ==
    [channel |-> channel, topic |-> topic, region |-> region,
     start |-> start, url |-> url, size |-> size]

\* the rows a Filmliste is made of, and the longest list
MaxRows == 4
Rows == { Row(c, "", "", st, "u", "1") : c \in {"", "ARD", "ZDF"},
                                        st \in {"", "7"} }
        \cup { Row("", "Tatort", "", "7", "u", "1"),
               Row("", "", "DE", "7", "u", "1"),
               Row("ZDF", "heute", "", "7", "", "1"),
               Row("ARD", "", "AT", "7", "u", "") }

\* a loop that takes every field as the row has it
CarryOwn(own, last) == own

\* _get_shows, lines 506-508: `show.get('channel') or channel`
CarryForward(own, last) == IF own # "" THEN own ELSE last

\* _get_shows, line 509
Accepted(row) == row.start # "" /\ row.url # "" /\ row.size # ""

\* _get_shows before the first row: the index of the row the loop takes
\* next, the locals channel, topic and region (line 479) and the records
\* yielded
NoRows == [next |-> 1, channel |-> "", topic |-> "", region |-> "",
           items |-> <<>>]

GetShowsInputs(maxRows) ==
    { [Call("get_shows", rows) EXCEPT !.result = NoRows] :
        rows \in SeqsUpTo(Rows, maxRows) }

\* _get_shows, lines 505-533: one pass of the loop over an 'X' row, or the
\* end of the loop
GetShowsRow ==
    /\ call.op = "get_shows"
    /\ ~call.done
    /\ IF call.result.next > Len(call.arg)
          THEN call' = [call EXCEPT !.done = TRUE]
          ELSE LET show == call.arg[call.result.next]
                   channel == CarryForward(show.channel, call.result.channel)
                   topic == CarryForward(show.topic, call.result.topic)
                   region == CarryForward(show.region, call.result.region)
               IN  call' = [call EXCEPT
                        !.result.next = @ + 1,
                        !.result.channel = channel,
                        !.result.topic = topic,
                        !.result.region = region,
                        !.result.items =
                            IF Accepted(show)
                                THEN Append(@, [row |-> call.result.next,
                                                channel |-> channel,
                                                topic |-> topic,
                                                region |-> region])
                                ELSE @]
    /\ UNCHANGED <<runVars, ledger, writers>>

\* Strings of URL fields are sequences of characters.
Digits == {"0", "1", "2", "3", "4", "5", "6", "7", "8", "9"}

DigitValue(c) ==
    CASE c = "0" -> 0 [] c = "1" -> 1 [] c = "2" -> 2 [] c = "3" -> 3
      [] c = "4" -> 4 [] c = "5" -> 5 [] c = "6" -> 6 [] c = "7" -> 7
      [] c = "8" -> 8 [] c = "9" -> 9

\* int(text) for a text of decimal digits
RECURSIVE DecimalValue(_)
DecimalValue(text) ==
    IF text = <<>> THEN 0
    ELSE 10 * DecimalValue(SubSeq(text, 1, Len(text) - 1))
            + DigitValue(text[Len(text)])

\* int(text): a sign and decimal digits, ValueError for anything else
IsInt(text) ==
    LET digits == IF text # <<>> /\ Head(text) = "-" THEN Tail(text) ELSE text
    IN  digits # <<>> /\ \A i \in 1..Len(digits) : digits[i] \in Digits

Int_(text) ==
    IF Head(text) = "-" THEN 0 - DecimalValue(Tail(text))
    ELSE DecimalValue(text)

\* s[:n] of Python
Slice(str, n) ==
    LET end == IF n < 0 THEN Len(str) + n ELSE n
    IN  IF end <= 0 THEN <<>>
        ELSE IF end >= Len(str) THEN str
        ELSE SubSeq(str, 1, end)

\* the index of the first '|' of a string, 0 without one
Bar(str) ==
    IF \E i \in 1..Len(str) : str[i] = "|"
        THEN CHOOSE i \in 1..Len(str) :
                /\ str[i] = "|"
                /\ \A j \in 1..(i - 1) : str[j] # "|"
        ELSE 0

\* the result of _qualify_url: a string, None or the exception raised
Str(value) == [kind |-> "str", value |-> value]
None == [kind |-> "None", value |-> <<>>]
Raised(e) == [kind |-> e, value |-> <<>>]

\* a derivation that appends the text and leaves the primary URL whole
QualifyUrlWhole(basis, extension) ==
    IF extension = <<>> THEN None
    ELSE IF Bar(extension) # 0
        THEN Str(basis \o SubSeq(extension, Bar(extension) + 1,
                                  Len(extension)))
    ELSE Str(basis \o extension)

\* Database._qualify_url
QualifyUrl(basis, extension) ==
    IF extension = <<>> THEN None
    ELSE IF Bar(extension) # 0
        THEN LET offset == SubSeq(extension, 1, Bar(extension) - 1)
                 text == SubSeq(extension, Bar(extension) + 1, Len(extension))
             IN  IF IsInt(offset)
                     THEN Str(Slice(basis, Int_(offset)) \o text)
                     ELSE Raised("ValueError")
    ELSE Str(basis \o extension)

\* primary URLs and extension codes of a row
Primaries ==
    { <<"h", "t", "t", "p", ":", "/", "/", "x", "/", "y", ".", "m", "p", "4">>,
      <<"h", "t", "t", "p", ":", "/", "/", "x", "/", "a", "|", "b">>,
      <<"a", "b">> }
ExtensionCodes ==
    { <<>>,
      <<"3", "|", "z", ".", "m", "p", "4">>,
      <<"9", "|", "z", ".", "m", "p", "4">>,
      <<"_", "h", "d", ".", "m", "p", "4">>,
      <<"0", "|", "z">>, <<"1", "2", "|", "z">>, <<"1", "|", "a", "|", "b">>,
      <<"1", "0", "|">>, <<"|", "z">>, <<"x", "|", "z">>, <<"-", "1", "|", "z">>,
      <<"|">>, <<"9">> }

QualifyInputs ==
    { Call("qualify_url", [basis |-> b, extension |-> e]) :
        b \in Primaries, e \in ExtensionCodes }

QualifyCall ==
    /\ call.op = "qualify_url"
    /\ ~call.done
    /\ call' = [call EXCEPT !.done = TRUE,
                            !.result = QualifyUrl(call.arg.basis,
                                                  call.arg.extension)]
    /\ UNCHANGED <<runVars, ledger, writers>>

DigitOf(n) ==
    CASE n = 0 -> "0" [] n = 1 -> "1" [] n = 2 -> "2" [] n = 3 -> "3"
      [] n = 4 -> "4" [] n = 5 -> "5" [] n = 6 -> "6" [] n = 7 -> "7"
      [] n = 8 -> "8" [] n = 9 -> "9"

\* str(n) for a natural number n
RECURSIVE DecimalText(_)
DecimalText(n) ==
    IF n < 10 THEN <<DigitOf(n)>>
    ELSE DecimalText(n \div 10) \o <<DigitOf(n % 10)>>

\* str(start.timestamp()): the float of a whole number of seconds
TimestampText(start) == DecimalText(start) \o <<".", "0">>

\* hashlib.sha1 after the five updates of _show_hash: the digest of the
\* bytes fed to it, one after the other.  Digests of different byte
\* strings are taken to differ, so a digest is written as its input.
Sha1(bytes) == [sha1 |-> bytes]

\* Database._show_hash
ShowHash(channel, topic, title, size, start) ==
    Sha1(channel \o topic \o title \o DecimalText(size)
            \o TimestampText(start))

\* the five fields of a record that go into its fingerprint
HashedFields ==
    [channel : { <<"A">>, <<"A", "B">> },
     topic : { <<"C">>, <<"B", "C">> },
     title : { <<"D">>, <<"C", "D">> },
     size : {1, 12},
     start : {3, 23}]

ShowHashInputs ==
    { Call("show_hash", [a |-> x, b |-> y]) :
        x \in HashedFields, y \in HashedFields }

\* _get_shows, line 516, for two records
ShowHashCall ==
    /\ call.op = "show_hash"
    /\ ~call.done
    /\ call' = [call EXCEPT
            !.done = TRUE,
            !.result = [r \in {"a", "b"} |->
                          ShowHash(call.arg[r].channel, call.arg[r].topic,
                                   call.arg[r].title, call.arg[r].size,
                                   call.arg[r].start)]]
    /\ UNCHANGED <<runVars, ledger, writers>>

\* characters escape_path replaces outside Windows: '/' and chr(0)
InvalidChars == {"/", "NUL"}

\* escape_path: invalidre.sub("_", s)
EscapePath(str) ==
    [i \in 1..Len(str) |-> IF str[i] \in InvalidChars THEN "_" ELSE str[i]]

\* A piece of the --target template: a character or a replacement field.
Lit(c) == [kind |-> "lit", text |-> c]
Field(name) == [kind |-> "field", text |-> name]

\* str.format on the template: every replacement field gives way to its
\* value
RECURSIVE Format(_, _)
Format(template, values) ==
    IF template = <<>> THEN <<>>
    ELSE LET piece == Head(template)
         IN  (IF piece.kind = "lit" THEN <<piece.text>>
                                    ELSE values[piece.text])
             \o Format(Tail(template), values)

\* the parts of a string between its '/' characters
RECURSIVE Split(_, _)
Split(str, part) ==
    IF str = <<>> THEN <<part>>
    ELSE IF Head(str) = "/" THEN <<part>> \o Split(Tail(str), <<>>)
    ELSE Split(Tail(str), Append(part, Head(str)))

\* pathlib.Path(str): the components of a relative path; empty components
\* and '.' are dropped, '..' is kept
PathParts(str) ==
    SelectSeq(Split(str, <<>>), LAMBDA part : part \notin { <<>>, <<".">> })

\* Show._move_to_user_target, lines 779-785: the destination path
Destination(template, dir, show) ==
    PathParts(Format(template,
        [name \in {"dir"} \cup DOMAIN show |->
            IF name = "dir" THEN dir ELSE EscapePath(show[name])]))

\* --target templates, and values of the fields channel and title
Templates ==
    { <<Field("dir"), Lit("/"), Field("channel"), Lit("/"), Field("title")>>,
      <<Field("dir"), Lit("/"), Field("channel"), Lit("-"), Field("title")>>,
      <<Field("dir"), Lit("/"), Lit("x"), Field("channel"), Lit("/"),
        Field("title"), Lit("y")>> }
FieldValues ==
    { <<"a">>, <<>>, <<".">>, <<".", ".">>, <<"/">>, <<"a", "/", "b">>,
      <<".", ".", "/", "b">>, <<"NUL">> }

TargetInputs ==
    { Call("target", [template |-> t, show |-> [channel |-> c, title |-> ti]]) :
        t \in Templates, c \in FieldValues, ti \in FieldValues }

TargetCall ==
    /\ call.op = "target"
    /\ ~call.done
    /\ call' = [call EXCEPT !.done = TRUE,
                            !.result = Destination(call.arg.template, <<"w">>,
                                                   call.arg.show)]
    /\ UNCHANGED <<runVars, ledger, writers>>

\* A response of requests.get(url, stream=True): the file name of the URL,
\* the status code and the body the server sent with it.
Response(name, code) ==
    [name |-> name, status |-> code,
     body |-> IF code = 200 THEN "content" ELSE "error page"]

\* the statuses a server answers with, the file names of URLs, and the
\* longest list of target_urls
Statuses == {200, 404, 503}
FileNames == {"a.mp4", "b.ts"}
MaxUrls == 3

\* Show._download_files, lines 751-769, for one URL: the file it writes and
\* yields; the status of the response is not looked at
Written(response) == [name |-> response.name, body |-> response.body]

\* Show._download_files consumed to its end: the files it yielded, and the
\* exception it raised ("none": it returned)
DownloadFilesAll(responses) ==
    [error |-> "none",
     files |-> [i \in 1..Len(responses) |-> Written(responses[i])]]

DownloadFilesInputs(maxUrls) ==
    { Call("download_files", rs) :
        rs \in SeqsUpTo({ Response(n, st) : n \in FileNames, st \in Statuses },
                        maxUrls) }

DownloadFilesCall ==
    /\ call.op = "download_files"
    /\ ~call.done
    /\ call' = [call EXCEPT !.done = TRUE,
                            !.result = DownloadFilesAll(call.arg)]
    /\ UNCHANGED <<runVars, ledger, writers>>

InitCalls ==
    /\ Idle
    /\ ledger = <<>>
    /\ writers = <<>>
    /\ \/ call \in QueryInputs(MaxLines)
       \/ call \in CompileInputs
       \/ call \in FilteredInputs
       \/ call \in SelectInputs(MaxVariants)
       \/ call \in ReassembleInputs(MaxSegmentLines)
       \/ call \in GetShowsInputs(MaxRows)
       \/ call \in QualifyInputs
       \/ call \in ShowHashInputs
       \/ call \in TargetInputs
       \/ call \in DownloadFilesInputs(MaxUrls)

NextCalls ==
    \/ QueryCall
    \/ CompileCall
    \/ FilteredCall
    \/ SelectCall
    \/ ReadSegments
    \/ SegmentFetch
    \/ SegmentAppend
    \/ GetShowsRow
    \/ QualifyCall
    \/ ShowHashCall
    \/ TargetCall
    \/ DownloadFilesCall

SpecCalls == InitCalls /\ [][NextCalls]_vars

RECURSIVE Flatten(_)
Flatten(ss) == IF ss = <<>> THEN <<>> ELSE Head(ss) \o Flatten(Tail(ss))

\* the rows of the table that pass the default rule on the start time and
\* satisfy every expression of the line and of the command line, in table
\* order, cut at --count
MatchesOfLine(arg, line) ==
    LET eligible == Filtered(arg.rows, <<>>, arg.a.include_future, 0, arg.today)
        both == SelectSeq(eligible,
                    LAMBDA h : /\ \A i \in 1..Len(line.rules) :
                                        MatchRule(h, line.rules[i])
                               /\ \A i \in 1..Len(arg.a.filter) :
                                        MatchRule(h, arg.a.filter[i]))
    IN  IF arg.a.limit = 0 THEN both ELSE Take(both, arg.a.limit)

TableKind(field, op) ==
    IF field \in {"description", "region", "channel", "topic", "title",
                  "hash", "url", "url_http"}
        THEN IF op \in {"=", "!="} THEN "text" ELSE "illegal"
    ELSE IF op \notin {"=", "!=", "+", "-"} THEN "illegal"
    ELSE IF field \in {"duration", "age"} THEN "duration"
    ELSE IF field = "start" THEN "date"
    ELSE IF field = "size" THEN "int"
    ELSE "illegal"

\* C14: the compilation of a filter expression succeeds or raises
\* ConfigurationError and nothing else: it succeeds for a pair of the
\* legality table with a pattern that parses for its column, and raises
\* ConfigurationError for every other expression.
C14_OnlyConfigurationError ==
    Returned("compile") =>
        call.result =
            IF /\ call.arg # Malformed
               /\ TableKind(call.arg.field, call.arg.op) # "illegal"
               /\ TableKind(call.arg.field, call.arg.op)
                        \in {"text", call.arg.pattern.kind}
                THEN "ok"
                ELSE "ConfigurationError"

\* C15: without --include-future a query drops exactly the rows whose start
\* is later than the time of the query (a row that has started, even on the
\* day of the query, stays); with --include-future it drops no row.
C15_FutureExcluded ==
    Returned("filtered") =>
        call.result =
            SelectSeq(call.arg.rows,
                      LAMBDA h : call.arg.include_future
                                    \/ ~(Start(h) > call.arg.today))

\* a variant whose codecs are all audio codecs
AudioOnly(v) ==
    v.codecs # <<>> /\ \A i \in 1..Len(v.codecs) : v.codecs[i] = "mp4a"

\* the variants that have a bandwidth and are not audio-only, ascending
Eligible(manifest) ==
    SortByBandwidth(SelectSeq(manifest,
                              LAMBDA v : v.bandwidth # 0 /\ ~AudioOnly(v)))

\* C16: of the variants of a master manifest that have a bandwidth and are
\* not audio-only, sorted by bandwidth, the one selected is the last for
\* "_hd", the first for "_small" and the one at index (count div 2)
\* otherwise; a variant with a video and an audio codec is among them.
C16_VariantSelected ==
    (Returned("select") /\ Eligible(call.arg.manifest) # <<>>) =>
        LET sorted == Eligible(call.arg.manifest)
            n == Len(sorted)
        IN  /\ call.result.error = "none"
            /\ call.result.bandwidth =
                  IF call.arg.quality = "_hd" THEN sorted[n].bandwidth
                  ELSE IF call.arg.quality = "_small" THEN sorted[1].bandwidth
                  ELSE sorted[(n \div 2) + 1].bandwidth

\* the URLs of the segment lines of a variant manifest, in textual order
SegmentUrls(lines) ==
    LET uris == SelectSeq(lines, LAMBDA l : l.kind = "uri")
    IN  [i \in 1..Len(uris) |-> uris[i].url]

\* C17: during the reassembly at most one segment file is in the scratch
\* directory; when it ends none is left and the output file holds the
\* bodies of the segments of the manifest's segment lines, in textual
\* order, each once.
C17_SegmentsReassembled ==
    call.op = "reassemble" =>
        /\ Cardinality(call.result.files) <= 1
        /\ call.done =>
            /\ call.result.files = {}
            /\ call.result.out = SegmentUrls(call.arg)

\* the value of a field in the last of the rows 1..n that has one, "" when
\* none has
LastValue(vals, n) ==
    LET filled == { j \in 1..n : vals[j] # "" }
    IN  IF filled = {} THEN ""
        ELSE vals[CHOOSE j \in filled : \A k \in filled : k <= j]

\* C18: the records _get_shows yields are the rows with start, URL and
\* size, in order; channel, topic and region of each are the row's own
\* value if it has one and otherwise the value of the last earlier row that
\* has one, whether that row was yielded or dropped; the running values
\* after a row are the last values of the rows read so far.
C18_CarryForward ==
    call.op = "get_shows" =>
        LET rows == call.arg
            r == call.result
            read == r.next - 1
            channels == [j \in 1..Len(rows) |-> rows[j].channel]
            topics == [j \in 1..Len(rows) |-> rows[j].topic]
            regions == [j \in 1..Len(rows) |-> rows[j].region]
            accepted == SelectSeq([j \in 1..read |-> j],
                            LAMBDA j : /\ rows[j].start # ""
                                       /\ rows[j].url # ""
                                       /\ rows[j].size # "")
        IN  /\ r.channel = LastValue(channels, read)
            /\ r.topic = LastValue(topics, read)
            /\ r.region = LastValue(regions, read)
            /\ Len(r.items) = Len(accepted)
            /\ \A k \in 1..Len(accepted) :
                  r.items[k] = [row |-> accepted[k],
                                channel |-> LastValue(channels, accepted[k]),
                                topic |-> LastValue(topics, accepted[k]),
                                region |-> LastValue(regions, accepted[k])]

\* ARD, then a row of ZDF that is dropped, then a row without channel: the
\* second record is ZDF's
C18_Witness ==
    /\ Returned("get_shows")
    /\ call.arg = <<Row("ARD", "", "", "7", "u", "1"),
                    Row("ZDF", "heute", "", "7", "", "1"),
                    Row("", "", "", "7", "u", "1")>>
    /\ Len(call.result.items) = 2
    /\ call.result.items[2].channel = "ZDF"

\* the strings of the examples
XYmp4 == <<"h", "t", "t", "p", ":", "/", "/", "x", "/", "y", ".", "m", "p", "4">>
Zmp4 == <<"z", ".", "m", "p", "4">>
HDmp4 == <<"_", "h", "d", ".", "m", "p", "4">>

\* an extension code with '|' whose part left of the first '|' is a decimal
\* number n gives the first n characters of the primary URL and then the
\* part right of it; a code without '|' is appended; an empty code gives
\* None
DerivedByRule ==
    LET b == call.arg.basis
        e == call.arg.extension
    IN  /\ e = <<>> => call.result = None
        /\ (e # <<>> /\ \A i \in 1..Len(e) : e[i] # "|") =>
                call.result = Str(b \o e)
        /\ \A k \in 2..Len(e) :
                (e[k] = "|" /\ \A j \in 1..(k - 1) : e[j] \in Digits) =>
                    LET n == DecimalValue(SubSeq(e, 1, k - 1))
                    IN  call.result =
                          Str([i \in 1..(IF n < Len(b) THEN n ELSE Len(b))
                                  |-> b[i]]
                              \o [i \in 1..(Len(e) - k) |-> e[k + i]])

\* C19 as stated: the rule, and "http://x/y.mp4" with "3|z.mp4" gives
\* "http://x/z.mp4", with "_hd.mp4" gives "http://x/y.mp4_hd.mp4".
C19_AsStated ==
    Returned("qualify_url") =>
        /\ DerivedByRule
        /\ (call.arg.basis = XYmp4 /\ call.arg.extension = <<"3", "|">> \o Zmp4)
                => call.result = Str(SubSeq(XYmp4, 1, 9) \o Zmp4)
        /\ (call.arg.basis = XYmp4 /\ call.arg.extension = HDmp4)
                => call.result = Str(XYmp4 \o HDmp4)

\* C19: the rule, and "http://x/y.mp4" with "3|z.mp4" gives "httz.mp4",
\* with "9|z.mp4" gives "http://x/z.mp4", with "_hd.mp4" gives
\* "http://x/y.mp4_hd.mp4".
C19_UrlDerived ==
    Returned("qualify_url") =>
        /\ DerivedByRule
        /\ (call.arg.basis = XYmp4 /\ call.arg.extension = <<"3", "|">> \o Zmp4)
                => call.result = Str(<<"h", "t", "t">> \o Zmp4)
        /\ (call.arg.basis = XYmp4 /\ call.arg.extension = <<"9", "|">> \o Zmp4)
                => call.result = Str(SubSeq(XYmp4, 1, 9) \o Zmp4)
        /\ (call.arg.basis = XYmp4 /\ call.arg.extension = HDmp4)
                => call.result = Str(XYmp4 \o HDmp4)

C19_Witness ==
    /\ Returned("qualify_url")
    /\ call.arg.basis = XYmp4
    /\ call.arg.extension = <<"3", "|">> \o Zmp4
    /\ call.result = Str(<<"h", "t", "t", "z", ".", "m", "p", "4">>)

\* C20: two records get the same fingerprint if and only if they agree in
\* channel, topic, title, size and start: records that differ in one of the
\* five fields feed different bytes to the digest.
C20_FingerprintDistinct ==
    Returned("show_hash") =>
        ((call.result.a = call.result.b) <=> (call.arg.a = call.arg.b))

\* the directory levels a template describes: one more than its '/'
Levels(template) ==
    Len(SelectSeq(template, LAMBDA piece : piece = Lit("/"))) + 1

\* C21: whatever the values of the show fields, the destination path has
\* the directory levels of the template, no more and no fewer, and none of
\* its components is the parent directory.
C21_StaysInsideTarget ==
    Returned("target") =>
        /\ Len(call.result) = Levels(call.arg.template)
        /\ \A i \in 1..Len(call.result) : call.result[i] # <<".", ".">>

\* C22: no file the fetch hands to Show.download holds the body of a
\* response with an error status, and a fetch that got such a response
\* ends with an error.
C22_HttpErrorFailsFetch ==
    Returned("download_files") =>
        /\ \A i \in 1..Len(call.result.files) :
                call.result.files[i].body # "error page"
        /\ (\E i \in 1..Len(call.arg) : call.arg[i].status >= 400) =>
                call.result.error # "none"

\* C23: while no ingestion is under way, a store with a freshness timestamp
\* holds the whole record set of a finished ingestion; a store an ingestion
\* failed on has no timestamp.
C23_FreshOnlyWhenComplete ==
    pc \notin {"initialize", "showlist", "get_shows"} =>
        \A v \in Versions :
            stores[v].user_version # 0 => stores[v].rows \in Catalogs

====
